---- MODULE Spec2Model ----
(***************************************************************************)
(* A model of the exchange matching engine: MatchingEngine (engine.rs)     *)
(* routing to one OrderBook per instrument (orderbook.rs), with Order      *)
(* (order.rs) and Trade (trade.rs) records.                                *)
(*                                                                         *)
(* Decimal prices and quantities are integers (exact arithmetic either way)*)
(* Option<Decimal> is a sequence: <<>> is None, <<p>> is Some(p).          *)
(* Uuid::new_v4() is a fresh number drawn from a counter, so the order of  *)
(* ids is the order of creation.  Timestamps and trade ids play no part in *)
(* matching and are left out.                                              *)
(*                                                                         *)
(* One engine call is a sequence of steps (pc): the entry, one step per    *)
(* iteration of the loops of match_order and process_level, the resting   *)
(* step, and the return to the driver.                                     *)
(***************************************************************************)
EXTENDS Integers, Sequences, FiniteSets

\* ---------------------------------------------------------------- bounds
\* how many orders the driver creates in one run (caps the Uuid counter)
MaxOrders == 3

\* how many log_* calls are made on one logger
MaxCalls == 3

\* how many lines a BufWriter holds before it writes them out
BufCapacity == 2
MaxFill == 3

\* the driver's inputs: two instruments, a price grid, quantities from 0
\* (simulation.rs: quantity.unwrap_or_default()) upwards
Instruments == {"X", "Y"}
Prices == {1, 2}
Quantities == {0, 1, 2}
Ids == 1..MaxOrders
Operations == {1, 2}

VARIABLES
    books,              \* MatchingEngine.books: instrument -> OrderBook
    next_id,            \* the next fresh Uuid
    pc,                 \* position of the driver / of the call in progress
    incoming,           \* the order being processed (add_order's `order`)
    prices_to_process,  \* match_order: the Vec returned by get_matchable_prices
    iter,               \* match_order: how many of its prices the for loop took
    price,              \* process_level: its `price` argument (0 outside)
    trades,             \* the trades of the call in progress / just returned
    result,             \* what the last call returned to the driver
    pre,                \* history: books at the entry of the call
    filled_orders,      \* history: final records of resting orders consumed
    traded,             \* history: id -> quantity traded so far (live orders)
    log,                \* history: the logger calls made by the call in progress
    last_submit,        \* history: the LIMIT order of the previous call, if it did
                        \* not trade, and its book before the call
    mode,               \* the LoggingMode the logger was created with
    calls,              \* history: the log_* calls made on the logger, in order
    operation,          \* the number of the driver's current operation
    channel,            \* mpsc channel: the messages sent and not yet received
    sender,             \* TRUE until finalize drops the sending endpoint
    buffer,             \* BufWriter: the lines written and not yet flushed
    file,               \* the lines of the log file
    file_state,         \* File::create: "unopened", "open" or "failed"
    writer_pc,          \* position of the writer thread ("none": no such thread)
    main_pc,            \* position of the thread that calls the logger
    io_failed,          \* history: File::create or a write has failed
    stdout,             \* the lines printed to the standard output
    dropped             \* history: a queued message was discarded unreceived

engine_vars == <<books, next_id, pc, incoming, prices_to_process, iter, price, trades,
                 result, pre, filled_orders, traded, log, last_submit>>

logger_vars == <<mode, calls, operation, channel, sender, buffer, file, file_state, writer_pc,
                 main_pc, io_failed, stdout, dropped>>

vars == <<engine_vars, logger_vars>>

\* ------------------------------------------------------------ map helpers
EmptyMap == [x \in {} |-> 0]

MapInsert(f, k, v) == [x \in DOMAIN f \cup {k} |-> IF x = k THEN v ELSE f[x]]

MapRemove(f, k) == [x \in DOMAIN f \ {k} |-> f[x]]

RECURSIVE Ascending(_)
Ascending(S) ==
    IF S = {} THEN <<>>
    ELSE LET m == CHOOSE x \in S : \A y \in S : x <= y
         IN <<m>> \o Ascending(S \ {m})

Reverse(s) == [i \in 1..Len(s) |-> s[Len(s) + 1 - i]]

RECURSIVE SumSeq(_)
SumSeq(s) == IF s = <<>> THEN 0 ELSE Head(s) + SumSeq(Tail(s))

\* faulty variant: the larger of the two
Max(a, b) == IF a >= b THEN a ELSE b

\* faulty variant: at most one unit is traded at a time
unit_lot(a, b) == IF a <= 1 THEN a ELSE IF b <= 1 THEN b ELSE 1

Min(a, b) == IF a <= b THEN a ELSE b

\* ------------------------------------------------------------------ Order
NoOrder ==
    [order_id |-> 0, instrument |-> "", side |-> "", order_type |-> "",
     status |-> "", price |-> <<>>, quantity |-> 0, remaining_quantity |-> 0]

Order_new(id, instrument, side, order_type, p, quantity) ==
    [order_id |-> id, instrument |-> instrument, side |-> side,
     order_type |-> order_type, status |-> "New", price |-> p,
     quantity |-> quantity, remaining_quantity |-> quantity]

is_filled(o) == o.remaining_quantity = 0

\* faulty variant: a fill larger than the remaining quantity is not capped
fill_uncapped(o, qty) ==
    LET r == o.remaining_quantity - qty
    IN [o EXCEPT !.remaining_quantity = r,
                 !.status = IF r = 0 THEN "Filled" ELSE "PartiallyFilled"]

\* faulty variant: the fill is also taken off the original quantity
fill_shrinks_quantity(o, qty) ==
    LET r == IF qty > o.remaining_quantity THEN 0
             ELSE o.remaining_quantity - qty
    IN [o EXCEPT !.quantity = @ - qty,
                 !.remaining_quantity = r,
                 !.status = IF r = 0 THEN "Filled" ELSE "PartiallyFilled"]

\* faulty variant: any fill takes all that remains
fill_takes_all(o, qty) ==
    [o EXCEPT !.remaining_quantity = 0, !.status = "Filled"]

fill(o, qty) ==
    LET r == IF qty > o.remaining_quantity THEN 0
             ELSE o.remaining_quantity - qty
    IN [o EXCEPT !.remaining_quantity = r,
                 !.status = IF r = 0 THEN "Filled" ELSE "PartiallyFilled"]

\* ------------------------------------------------------------------ Trade
\* faulty variant: the trade carries the symbol of the first instrument
Trade_new_first_symbol(instrument, p, quantity, buy_order_id, sell_order_id, taker_side) ==
    [instrument |-> "X", price |-> p, quantity |-> quantity,
     buy_order_id |-> buy_order_id, sell_order_id |-> sell_order_id,
     taker_side |-> taker_side]

Trade_new(instrument, p, quantity, buy_order_id, sell_order_id, taker_side) ==
    [instrument |-> instrument, price |-> p, quantity |-> quantity,
     buy_order_id |-> buy_order_id, sell_order_id |-> sell_order_id,
     taker_side |-> taker_side]

\* -------------------------------------------------------------- OrderBook
OrderBook_new(instrument) ==
    [instrument |-> instrument, bids |-> EmptyMap, asks |-> EmptyMap,
     orders |-> EmptyMap]

\* the price map of a side, and a book with that map replaced
side_map(book, side) == IF side = "Buy" THEN book.bids ELSE book.asks

with_side(book, side, m) ==
    IF side = "Buy" THEN [book EXCEPT !.bids = m] ELSE [book EXCEPT !.asks = m]

opposite(side) == IF side = "Buy" THEN "Sell" ELSE "Buy"

\* VecDeque operations used by the book
front(queue) == Head(queue)

pop_front(queue) == Tail(queue)

\* faulty variant: the newcomer jumps the queue
push_front(queue, id) == <<id>> \o queue

\* faulty variant: the id is appended twice
push_back_twice(q, x) == q \o <<x, x>>

push_back(queue, id) == Append(queue, id)

\* faulty variant: the queue is not scrubbed
retain_all(queue, id) == queue

\* faulty variant: the head of the queue is dropped, whatever its id
retain_tail(queue, id) == Tail(queue)

retain_ne(queue, id) == SelectSeq(queue, LAMBDA x : x # id)

\* faulty variant: a price equal to the limit does not match
RECURSIVE scan_prices_strict(_, _, _, _)
scan_prices_strict(keys, m, side, limit) ==
    IF keys = <<>> THEN <<>>
    ELSE LET p == Head(keys)
         IN IF m[p] = <<>> THEN scan_prices_strict(Tail(keys), m, side, limit)
            ELSE IF limit = <<>> THEN <<p>> \o scan_prices_strict(Tail(keys), m, side, limit)
            ELSE IF (side = "Buy" /\ p < limit[1]) \/ (side = "Sell" /\ p > limit[1])
                 THEN <<p>> \o scan_prices_strict(Tail(keys), m, side, limit)
                 ELSE <<>>

\* get_matchable_prices: the opposite prices in best-first order, empty
\* queues skipped, cut at the first price the limit does not cross.
RECURSIVE scan_prices(_, _, _, _)
scan_prices(keys, m, side, limit) ==
    IF keys = <<>> THEN <<>>
    ELSE LET p == Head(keys)
         IN IF m[p] = <<>> THEN scan_prices(Tail(keys), m, side, limit)
            ELSE IF limit = <<>> THEN <<p>> \o scan_prices(Tail(keys), m, side, limit)
            ELSE IF (side = "Buy" /\ p <= limit[1]) \/ (side = "Sell" /\ p >= limit[1])
                 THEN <<p>> \o scan_prices(Tail(keys), m, side, limit)
                 ELSE <<>>

\* faulty variant: the prices are walked worst-first
get_matchable_prices_worst_first(book, inc) ==
    IF inc.side = "Buy"
    THEN scan_prices(Reverse(Ascending(DOMAIN book.asks)), book.asks, "Sell", inc.price)
    ELSE scan_prices(Ascending(DOMAIN book.bids), book.bids, "Buy", inc.price)

\* faulty variant: the limit is not looked at
get_matchable_prices_no_limit(book, inc) ==
    IF inc.side = "Buy"
    THEN scan_prices(Ascending(DOMAIN book.asks), book.asks, "Buy", <<>>)
    ELSE scan_prices(Reverse(Ascending(DOMAIN book.bids)), book.bids, "Sell", <<>>)

get_matchable_prices(book, inc) ==
    IF inc.side = "Buy"
    THEN scan_prices(Ascending(DOMAIN book.asks), book.asks, "Buy", inc.price)
    ELSE scan_prices(Reverse(Ascending(DOMAIN book.bids)), book.bids, "Sell", inc.price)

\* faulty variant: the incoming order is always named as the buyer
trade_ids_taker_first(inc, resting) == <<inc.order_id, resting.order_id>>

\* process_level, lines 102-106: (buy_order_id, sell_order_id)
trade_ids(inc, resting) ==
    IF inc.side = "Buy" THEN <<inc.order_id, resting.order_id>>
    ELSE <<resting.order_id, inc.order_id>>

\* faulty variant: the trade is struck at the taker's limit
taker_price(p, inc, resting) == IF inc.price # <<>> THEN inc.price[1] ELSE p

\* process_level, line 110: the price handed to Trade::new is the level's key
execution_price(p, inc, resting) == p

\* faulty variant: the while loop does not test whether the incoming order
\* is filled
level_continues_when_filled(book, inc, p) ==
    LET opp == side_map(book, opposite(inc.side))
    IN p \in DOMAIN opp /\ opp[p] # <<>>

\* process_level, lines 89-92: the while loop runs another iteration
level_continues(book, inc, p) ==
    LET opp == side_map(book, opposite(inc.side))
    IN p \in DOMAIN opp /\ ~is_filled(inc) /\ opp[p] # <<>>

\* faulty variant: a filled resting order is updated in place and stays
level_iteration_keeps_filled(book, inc, p) ==
    LET queue == side_map(book, opposite(inc.side))[p]
        resting_id == front(queue)
        resting == book.orders[resting_id]
        trade_qty == Min(inc.remaining_quantity, resting.remaining_quantity)
        resting2 == fill(resting, trade_qty)
        ids == trade_ids(inc, resting)
    IN [book |-> [book EXCEPT !.orders[resting_id] = resting2],
        incoming |-> fill(inc, trade_qty),
        trade |-> Trade_new(book.instrument, execution_price(p, inc, resting), trade_qty,
                            ids[1], ids[2], inc.side),
        resting |-> resting2, resting_id |-> resting_id]

\* faulty variant: a resting order that is filled in part goes to the back
\* of its queue
level_iteration_requeues(book, inc, p) ==
    LET opp_side == opposite(inc.side)
        opp == side_map(book, opp_side)
        queue == opp[p]
        resting_id == front(queue)
        resting == book.orders[resting_id]
        trade_qty == Min(inc.remaining_quantity, resting.remaining_quantity)
        resting2 == fill(resting, trade_qty)
        ids == trade_ids(inc, resting)
        book2 ==
            IF is_filled(resting2)
            THEN [with_side(book, opp_side, [opp EXCEPT ![p] = pop_front(queue)])
                     EXCEPT !.orders = MapRemove(book.orders, resting_id)]
            ELSE [with_side(book, opp_side,
                            [opp EXCEPT ![p] = push_back(pop_front(queue), resting_id)])
                     EXCEPT !.orders[resting_id] = resting2]
    IN [book |-> book2, incoming |-> fill(inc, trade_qty),
        trade |-> Trade_new(book.instrument, execution_price(p, inc, resting), trade_qty,
                            ids[1], ids[2], inc.side),
        resting |-> resting2, resting_id |-> resting_id]

\* process_level, line 94: the id at the front of the level's queue
head_of_level(book, inc, p) == front(side_map(book, opposite(inc.side))[p])

\* process_level, lines 94-120: one iteration of the while loop
level_iteration(book, inc, p) ==
    LET opp_side == opposite(inc.side)
        opp == side_map(book, opp_side)
        queue == opp[p]
        resting_id == front(queue)
        resting == book.orders[resting_id]
        trade_qty == Min(inc.remaining_quantity, resting.remaining_quantity)
        inc2 == fill(inc, trade_qty)
        resting2 == fill(resting, trade_qty)
        ids == trade_ids(inc, resting)
        trade == Trade_new(book.instrument, execution_price(p, inc, resting), trade_qty,
                           ids[1], ids[2], inc.side)
        book2 ==
            IF is_filled(resting2)
            THEN [with_side(book, opp_side, [opp EXCEPT ![p] = pop_front(queue)])
                     EXCEPT !.orders = MapRemove(book.orders, resting_id)]
            ELSE [book EXCEPT !.orders[resting_id] = resting2]
    IN [book |-> book2, incoming |-> inc2, trade |-> trade,
        resting |-> resting2, resting_id |-> resting_id]

\* faulty variant: an emptied level stays in its map
level_kept(book, inc, p) == book

\* process_level, lines 123-127: drop the level if its queue is empty
level_cleanup(book, inc, p) ==
    LET opp_side == opposite(inc.side)
        opp == side_map(book, opp_side)
    IN IF p \in DOMAIN opp /\ opp[p] = <<>>
       THEN with_side(book, opp_side, MapRemove(opp, p))
       ELSE book

\* faulty variant: any unfilled order is recorded in the id index
rest_order_any_type(book, order) ==
    IF ~is_filled(order)
    THEN LET m == side_map(book, order.side)
             b == IF order.price # <<>>
                  THEN LET p == order.price[1]
                           queue == IF p \in DOMAIN m THEN m[p] ELSE <<>>
                       IN with_side(book, order.side,
                                    MapInsert(m, p, push_back(queue, order.order_id)))
                  ELSE book
         IN [b EXCEPT !.orders = MapInsert(book.orders, order.order_id, order)]
    ELSE book

\* faulty variant: the order is queued as it was submitted, fills forgotten
rest_order_as_submitted(book, order) ==
    IF ~is_filled(order) /\ order.order_type = "Limit" /\ order.price # <<>>
    THEN LET m == side_map(book, order.side)
             p == order.price[1]
             queue == IF p \in DOMAIN m THEN m[p] ELSE <<>>
             fresh == [order EXCEPT !.remaining_quantity = order.quantity,
                                    !.status = "New"]
         IN [with_side(book, order.side, MapInsert(m, p, push_back(queue, order.order_id)))
                EXCEPT !.orders = MapInsert(book.orders, order.order_id, fresh)]
    ELSE book

\* add_order, lines 28-39: rest what is left of a LIMIT order
rest_order(book, order) ==
    IF ~is_filled(order) /\ order.order_type = "Limit" /\ order.price # <<>>
    THEN LET m == side_map(book, order.side)
             p == order.price[1]
             queue == IF p \in DOMAIN m THEN m[p] ELSE <<>>
         IN [with_side(book, order.side, MapInsert(m, p, push_back(queue, order.order_id)))
                EXCEPT !.orders = MapInsert(book.orders, order.order_id, order)]
    ELSE book

\* faulty variant: the order leaves the id index and stays in its queue
cancel_order_index_only(book, order_id) ==
    IF order_id \in DOMAIN book.orders
    THEN [book |-> [book EXCEPT !.orders = MapRemove(book.orders, order_id)],
          status |-> "Ok",
          order |-> <<[book.orders[order_id] EXCEPT !.status = "Canceled"]>>]
    ELSE [book |-> book, status |-> "OrderNotFound", order |-> <<>>]

\* faulty variant: the order is reported cancelled and stays in the book
cancel_order_keeps_order(book, order_id) ==
    IF order_id \in DOMAIN book.orders
    THEN [book |-> book, status |-> "Ok",
          order |-> <<[book.orders[order_id] EXCEPT !.status = "Canceled"]>>]
    ELSE [book |-> book, status |-> "OrderNotFound", order |-> <<>>]

\* cancel_order: the book afterwards and the Result
cancel_order(book, order_id) ==
    IF order_id \in DOMAIN book.orders
    THEN LET order_to_cancel == book.orders[order_id]
             book1 == [book EXCEPT !.orders = MapRemove(book.orders, order_id)]
             m == side_map(book1, order_to_cancel.side)
             book2 ==
                 IF order_to_cancel.price # <<>> /\ order_to_cancel.price[1] \in DOMAIN m
                 THEN LET p == order_to_cancel.price[1]
                          queue == retain_ne(m[p], order_id)
                      IN IF queue = <<>>
                         THEN with_side(book1, order_to_cancel.side, MapRemove(m, p))
                         ELSE with_side(book1, order_to_cancel.side, [m EXCEPT ![p] = queue])
                 ELSE book1
         IN [book |-> book2, status |-> "Ok",
             order |-> <<[order_to_cancel EXCEPT !.status = "Canceled"]>>]
    ELSE [book |-> book, status |-> "OrderNotFound", order |-> <<>>]

\* faulty variant: a level's volume sums the original quantities
level_volume_of_quantity(book, queue) ==
    SumSeq([i \in 1..Len(queue) |-> book.orders[queue[i]].quantity])

\* display: the (price, volume) levels of one side, zero volumes filtered
level_volume(book, queue) ==
    SumSeq([i \in 1..Len(queue) |-> book.orders[queue[i]].remaining_quantity])

display_side(book, side) ==
    LET m == side_map(book, side)
        keys == IF side = "Buy" THEN Reverse(Ascending(DOMAIN m)) ELSE Ascending(DOMAIN m)
        levels == [i \in 1..Len(keys) |->
                     [price |-> keys[i], volume |-> level_volume(book, m[keys[i]])]]
    IN SelectSeq(levels, LAMBDA l : l.volume # 0)

display(book) == [bids |-> display_side(book, "Buy"), asks |-> display_side(book, "Sell")]

\* ----------------------------------------------------------------- engine
NoResult == [op |-> "none", instrument |-> "", order_id |-> 0, status |-> "", order |-> <<>>]

Result(op, instrument, id, status, order) ==
    [op |-> op, instrument |-> instrument, order_id |-> id, status |-> status,
     order |-> order]

\* faulty variant: only the LIMIT arm of the validation
invalid_order_price_limit_only(order) ==
    order.order_type = "Limit" /\ order.price = <<>>

\* process_order, lines 26-34: the type/price validation
invalid_order_price(order) ==
    \/ order.order_type = "Market" /\ order.price # <<>>
    \/ order.order_type = "Limit" /\ order.price = <<>>

\* add_order's second result: the final record of every resting order the
\* call consumed in full, in the order they were consumed
record_filled(filled, resting) ==
    IF is_filled(resting) THEN Append(filled, resting) ELSE filled

\* faulty variant: the filled orders are logged before the trades
logger_calls_filled_first(ts, filled, final_incoming_state) ==
    [i \in 1..Len(filled) |-> [method |-> "log_order_filled", arg |-> filled[i]]]
    \o [i \in 1..Len(ts) |-> [method |-> "log_trade", arg |-> ts[i]]]
    \o (IF is_filled(final_incoming_state)
           \/ final_incoming_state.order_type = "Market"
        THEN <<[method |-> "log_order_filled", arg |-> final_incoming_state]>>
        ELSE <<>>)

\* faulty variant: the incoming order is logged once for being filled and
\* once for being a MARKET order
logger_calls_twice(ts, filled, final_incoming_state) ==
    [i \in 1..Len(ts) |-> [method |-> "log_trade", arg |-> ts[i]]]
    \o [i \in 1..Len(filled) |-> [method |-> "log_order_filled", arg |-> filled[i]]]
    \o (IF is_filled(final_incoming_state)
        THEN <<[method |-> "log_order_filled", arg |-> final_incoming_state]>> ELSE <<>>)
    \o (IF final_incoming_state.order_type = "Market"
        THEN <<[method |-> "log_order_filled", arg |-> final_incoming_state]>> ELSE <<>>)

\* process_order, lines 41-49: the calls made on the logger, in order
log_call(method, arg) == [method |-> method, arg |-> arg]

logger_calls(ts, filled, final_incoming_state) ==
    [i \in 1..Len(ts) |-> log_call("log_trade", ts[i])]
    \o [i \in 1..Len(filled) |-> log_call("log_order_filled", filled[i])]
    \o (IF is_filled(final_incoming_state)
           \/ final_incoming_state.order_type = "Market"
        THEN <<log_call("log_order_filled", final_incoming_state)>>
        ELSE <<>>)

\* faulty variant: the id is looked up in every book
cancel_any_book(bs, order_id, instrument) ==
    LET holders == {i \in DOMAIN bs : order_id \in DOMAIN bs[i].orders}
    IN IF instrument \notin DOMAIN bs
       THEN [books |-> bs, status |-> "MarketNotFound", order |-> <<>>]
       ELSE IF holders = {}
       THEN [books |-> bs, status |-> "OrderNotFound", order |-> <<>>]
       ELSE LET i == CHOOSE i \in holders : TRUE
                r == cancel_order(bs[i], order_id)
            IN [books |-> [bs EXCEPT ![i] = r.book], status |-> r.status,
                order |-> r.order]

\* faulty variant: an unknown symbol gets a book of its own (entry().or_insert)
cancel_creates_book(bs, order_id, instrument) ==
    LET bs2 == IF instrument \in DOMAIN bs THEN bs
               ELSE MapInsert(bs, instrument, OrderBook_new(instrument))
        r == cancel_order(bs2[instrument], order_id)
    IN [books |-> [bs2 EXCEPT ![instrument] = r.book],
        status |-> IF instrument \in DOMAIN bs THEN r.status ELSE "MarketNotFound",
        order |-> r.order]

\* cancel_order_by_id as a function of the books
cancel_by_id(bs, order_id, instrument) ==
    IF instrument \in DOMAIN bs
    THEN LET r == cancel_order(bs[instrument], order_id)
         IN [books |-> [bs EXCEPT ![instrument] = r.book], status |-> r.status,
             order |-> r.order]
    ELSE [books |-> bs, status |-> "MarketNotFound", order |-> <<>>]

\* ids resting in some book
resting_ids(bs) == UNION {DOMAIN bs[s].orders : s \in DOMAIN bs}

\* ---------------------------------------------------------------- loggers
\* the logging modes that write a log file, and those with a writer thread
WritingModes ==
    {"NaiveFileWrite", "BufferedFileWrite", "AsyncString", "AsyncClosure", "AsyncEnum"}

AsyncModes == {"AsyncString", "AsyncClosure", "AsyncEnum"}

\* the logging modes of the loggers modelled: those and the console logger
LoggerModes == WritingModes \cup {"Naive"}

\* the text of the line of one log_* call (the timestamp is left out): its
\* tag, the id of its order or trade, and for a cancel its outcome
format(call) ==
    CASE call.method = "log_order_submission" ->
           [tag |-> "ORDER RECEIVED", id |-> call.arg.id, status |-> ""]
      [] call.method = "log_trade" ->
           [tag |-> "TRADE EXECUTED", id |-> call.arg.id, status |-> ""]
      [] call.method = "log_order_cancel" ->
           [tag |-> "ORDER CANCEL", id |-> call.arg.id,
            status |-> IF call.arg.success THEN "successfully cancelled"
                       ELSE "already filled"]
      [] call.method = "log_order_filled" ->
           [tag |-> "ORDER FILLED", id |-> call.arg.id, status |-> ""]

\* AsyncClosureLogger::log_*: the closure sent, which holds a copy of the
\* data of the call
closure(call) == [run |-> call.method, data |-> call.arg]

\* the line a closure writes when the writer thread runs it
closure_line(c) ==
    CASE c.run = "log_order_submission" ->
           [tag |-> "ORDER RECEIVED", id |-> c.data.id, status |-> ""]
      [] c.run = "log_trade" ->
           [tag |-> "TRADE EXECUTED", id |-> c.data.id, status |-> ""]
      [] c.run = "log_order_cancel" ->
           [tag |-> "ORDER CANCEL", id |-> c.data.id,
            status |-> IF c.data.success THEN "successfully cancelled"
                       ELSE "already filled"]
      [] c.run = "log_order_filled" ->
           [tag |-> "ORDER FILLED", id |-> c.data.id, status |-> ""]

\* AsyncEnumLogger::log_*: the LogMessage variant sent
LogMessage(call) ==
    CASE call.method = "log_order_submission" ->
           [variant |-> "OrderSubmission", data |-> call.arg]
      [] call.method = "log_trade" -> [variant |-> "Trade", data |-> call.arg]
      [] call.method = "log_order_cancel" -> [variant |-> "OrderCancel", data |-> call.arg]
      [] call.method = "log_order_filled" -> [variant |-> "OrderFilled", data |-> call.arg]

\* faulty variant: the two outcomes of a cancel are the wrong way round
enum_line_cancel_swapped(msg) ==
    CASE msg.variant = "OrderSubmission" ->
           [tag |-> "ORDER RECEIVED", id |-> msg.data.id, status |-> ""]
      [] msg.variant = "Trade" ->
           [tag |-> "TRADE EXECUTED", id |-> msg.data.id, status |-> ""]
      [] msg.variant = "OrderCancel" ->
           [tag |-> "ORDER CANCEL", id |-> msg.data.id,
            status |-> IF msg.data.success THEN "already filled"
                       ELSE "successfully cancelled"]
      [] msg.variant = "OrderFilled" ->
           [tag |-> "ORDER FILLED", id |-> msg.data.id, status |-> ""]

\* the line the enum writer's match writes for a LogMessage
enum_line(msg) ==
    CASE msg.variant = "OrderSubmission" ->
           [tag |-> "ORDER RECEIVED", id |-> msg.data.id, status |-> ""]
      [] msg.variant = "Trade" ->
           [tag |-> "TRADE EXECUTED", id |-> msg.data.id, status |-> ""]
      [] msg.variant = "OrderCancel" ->
           [tag |-> "ORDER CANCEL", id |-> msg.data.id,
            status |-> IF msg.data.success THEN "successfully cancelled"
                       ELSE "already filled"]
      [] msg.variant = "OrderFilled" ->
           [tag |-> "ORDER FILLED", id |-> msg.data.id, status |-> ""]

\* what a log_* call of an async logger sends: AsyncStringLogger formats on
\* the calling thread and sends the String, AsyncClosureLogger sends a
\* closure and AsyncEnumLogger a LogMessage, for the writer thread to format
message(m, call) ==
    CASE m = "AsyncString" -> format(call)
      [] m = "AsyncClosure" -> closure(call)
      [] m = "AsyncEnum" -> LogMessage(call)

line_of_message(m, msg) ==
    CASE m = "AsyncString" -> msg
      [] m = "AsyncClosure" -> closure_line(msg)
      [] m = "AsyncEnum" -> enum_line(msg)

\* faulty variant: the writer thread takes the newest message first
recv_newest(ch) == [msg |-> ch[Len(ch)], rest |-> SubSeq(ch, 1, Len(ch) - 1)]

\* Receiver::iter on a non-empty channel: the oldest message
recv(ch) == [msg |-> front(ch), rest |-> pop_front(ch)]

\* println!: the line reaches the standard output, or the write fails and
\* the macro panics
println(out, line, stdout_ok) ==
    IF stdout_ok THEN [stdout |-> Append(out, line), ok |-> TRUE]
    ELSE [stdout |-> out, ok |-> FALSE]

\* writeln! on a File: the line reaches the file, or the write fails and
\* the line is lost
file_write(buf, f, line, disk_ok) ==
    IF disk_ok THEN [buffer |-> buf, file |-> Append(f, line), ok |-> TRUE]
    ELSE [buffer |-> buf, file |-> f, ok |-> FALSE]

\* writeln! on a BufWriter: the line is buffered; a full buffer is written
\* out first, and if that fails the line is refused
buf_write(buf, f, line, disk_ok) ==
    IF Len(buf) < BufCapacity
    THEN [buffer |-> Append(buf, line), file |-> f, ok |-> TRUE]
    ELSE IF disk_ok
    THEN [buffer |-> <<line>>, file |-> f \o buf, ok |-> TRUE]
    ELSE [buffer |-> buf, file |-> f, ok |-> FALSE]

\* flush, after which the writer is dropped
flush(buf, f, disk_ok) ==
    IF disk_ok \/ buf = <<>>
    THEN [buffer |-> <<>>, file |-> f \o buf, ok |-> TRUE]
    ELSE [buffer |-> <<>>, file |-> f, ok |-> FALSE]

\* the write of one line by the logger of mode m
write_line(m, buf, f, line, disk_ok) ==
    IF m = "NaiveFileWrite" THEN file_write(buf, f, line, disk_ok)
    ELSE buf_write(buf, f, line, disk_ok)

\* create_logger: the synchronous loggers create their file at once, the
\* async loggers spawn the writer thread that will create it
create_logger(m) ==
    /\ mode = m
    /\ calls = <<>>
    /\ operation = 1
    /\ channel = <<>>
    /\ sender = TRUE
    /\ buffer = <<>>
    /\ file = <<>>
    /\ file_state \in (IF m \in AsyncModes \cup {"Baseline", "Naive"} THEN {"unopened"}
                       ELSE {"open", "failed"})
    /\ writer_pc = (IF m \in AsyncModes THEN "start" ELSE "none")
    /\ main_pc = "run"
    /\ io_failed = (file_state = "failed")
    /\ stdout = <<>>
    /\ dropped = FALSE

\* no previous submit on record
NoSubmit == [order |-> NoOrder, book |-> <<>>]

MatchingEngine_new ==
    /\ books = EmptyMap
    /\ next_id = 1
    /\ pc = "idle"
    /\ incoming = NoOrder
    /\ prices_to_process = <<>>
    /\ iter = 0
    /\ price = 0
    /\ trades = <<>>
    /\ result = NoResult
    /\ pre = EmptyMap
    /\ filled_orders = <<>>
    /\ traded = EmptyMap
    /\ log = <<>>
    /\ last_submit = NoSubmit

\* the engine with the logger of LoggingMode::Baseline, which the engine's
\* tests use: NoOpLogger, whose methods do nothing
Init == MatchingEngine_new /\ create_logger("Baseline")

\* MatchingEngine::add_market
add_market(instrument) ==
    /\ UNCHANGED logger_vars
    /\ pc = "idle"
    /\ books' = MapInsert(books, instrument, OrderBook_new(instrument))
    /\ pc' = "returned"
    /\ result' = Result("add_market", instrument, 0, "Ok", <<>>)
    /\ pre' = books
    /\ traded' = [id \in DOMAIN traded \cap resting_ids(books') |-> traded[id]]
    /\ UNCHANGED <<next_id, incoming, prices_to_process, iter, price, trades, filled_orders,
                   log>>
    /\ last_submit' = NoSubmit

\* MatchingEngine::process_order up to the for loop of match_order
process_order(order) ==
    /\ UNCHANGED logger_vars
    /\ pc = "idle"
    /\ next_id <= MaxOrders
    /\ next_id' = next_id + 1
    /\ pre' = books
    /\ incoming' = order
    /\ trades' = <<>>
    /\ filled_orders' = <<>>
    /\ iter' = 0
    /\ price' = 0
    /\ log' = <<>>
    /\ last_submit' = NoSubmit
    /\ UNCHANGED books
    /\ IF invalid_order_price(order)
       THEN /\ result' = Result("process_order", order.instrument, order.order_id,
                                "InvalidOrderPrice", <<>>)
            /\ pc' = "returned"
            /\ UNCHANGED <<prices_to_process, traded>>
       ELSE IF order.instrument \notin DOMAIN books
       THEN /\ result' = Result("process_order", order.instrument, order.order_id,
                                "MarketNotFound", <<>>)
            /\ pc' = "returned"
            /\ UNCHANGED <<prices_to_process, traded>>
       ELSE /\ prices_to_process' = get_matchable_prices(books[order.instrument], order)
            /\ traded' = MapInsert(traded, order.order_id, 0)
            /\ pc' = "match"
            /\ UNCHANGED result

\* match_order, lines 71-77: the head of the for loop
match_order_next ==
    /\ UNCHANGED logger_vars
    /\ pc = "match"
    /\ IF iter < Len(prices_to_process) /\ ~is_filled(incoming)
       THEN /\ iter' = iter + 1
            /\ price' = prices_to_process[iter + 1]
            /\ pc' = "level"
       ELSE /\ pc' = "rest"
            /\ UNCHANGED <<iter, price>>
    /\ UNCHANGED <<books, next_id, incoming, prices_to_process, trades, result, pre,
                   filled_orders, traded, log, last_submit>>

\* process_level, one iteration of its while loop; the lookup of the head
\* of the queue in the id index panics if the id is not there
\* (.expect("Order must exist in master map."))
process_level_iteration ==
    /\ UNCHANGED logger_vars
    /\ pc = "level"
    /\ level_continues(books[incoming.instrument], incoming, price)
    /\ IF head_of_level(books[incoming.instrument], incoming, price)
             \notin DOMAIN books[incoming.instrument].orders
       THEN /\ pc' = "panicked"
            /\ UNCHANGED <<books, incoming, trades, filled_orders, traded>>
       ELSE LET r == level_iteration(books[incoming.instrument], incoming, price)
            IN /\ books' = [books EXCEPT ![incoming.instrument] = r.book]
               /\ incoming' = r.incoming
               /\ trades' = Append(trades, r.trade)
               /\ filled_orders' = record_filled(filled_orders, r.resting)
               /\ traded' = [id \in DOMAIN traded |->
                                traded[id]
                                + (IF id = incoming.order_id THEN r.trade.quantity ELSE 0)
                                + (IF id = r.resting_id THEN r.trade.quantity ELSE 0)]
               /\ UNCHANGED pc
    /\ UNCHANGED <<next_id, prices_to_process, iter, price, result, pre, log,
                   last_submit>>

\* process_level, the loop's exit and the removal of an emptied level
process_level_exit ==
    /\ UNCHANGED logger_vars
    /\ pc = "level"
    /\ ~level_continues(books[incoming.instrument], incoming, price)
    /\ books' = [books EXCEPT ![incoming.instrument] = level_cleanup(@, incoming, price)]
    /\ price' = 0
    /\ pc' = "match"
    /\ UNCHANGED <<next_id, incoming, prices_to_process, iter, trades, result, pre,
                   filled_orders, traded, log, last_submit>>

\* add_order, lines 28-41, then process_order's logger calls and its Ok
add_order_rest ==
    /\ UNCHANGED logger_vars
    /\ pc = "rest"
    /\ books' = [books EXCEPT ![incoming.instrument] = rest_order(@, incoming)]
    /\ log' = logger_calls(trades, filled_orders, incoming)
    /\ last_submit' = IF trades = <<>> /\ incoming.order_type = "Limit"
                      THEN [order |-> incoming, book |-> pre[incoming.instrument]]
                      ELSE NoSubmit
    /\ result' = Result("process_order", incoming.instrument, incoming.order_id, "Ok", <<>>)
    /\ pc' = "returned"
    /\ UNCHANGED <<next_id, incoming, prices_to_process, iter, price, trades, pre,
                   filled_orders, traded>>

\* MatchingEngine::cancel_order_by_id
cancel_order_by_id(order_id, instrument) ==
    /\ UNCHANGED logger_vars
    /\ pc = "idle"
    /\ pre' = books
    /\ pc' = "returned"
    /\ LET r == cancel_by_id(books, order_id, instrument)
       IN /\ books' = r.books
          /\ result' = Result("cancel_order_by_id", instrument, order_id, r.status, r.order)
          /\ traded' = [id \in DOMAIN traded \cap resting_ids(r.books) |-> traded[id]]
    /\ UNCHANGED <<next_id, incoming, prices_to_process, iter, price, trades,
                   filled_orders, log, last_submit>>

\* the call returns to the driver, which goes on to its next operation
Return ==
    /\ UNCHANGED logger_vars
    /\ pc = "returned"
    /\ pc' = "idle"
    /\ incoming' = NoOrder
    /\ prices_to_process' = <<>>
    /\ iter' = 0
    /\ trades' = <<>>
    /\ result' = NoResult
    /\ pre' = EmptyMap
    /\ filled_orders' = <<>>
    /\ log' = <<>>
    /\ last_submit' = IF result.op = "process_order" THEN last_submit ELSE NoSubmit
    /\ traded' = [id \in DOMAIN traded \cap resting_ids(books) |-> traded[id]]
    /\ UNCHANGED <<books, next_id, price>>

\* the orders the driver can build: Order::new_limit, Order::new_market, and
\* the two shapes process_order rejects (engine.rs tests, lines 102-108).
\* Instrument "X" gets every shape; the second instrument "Y", there to
\* observe routing between books, gets unit LIMIT orders at one price.
NewOrders ==
    { Order_new(next_id, "X", s, t, p, q) :
        s \in {"Buy", "Sell"}, t \in {"Limit", "Market"},
        p \in {<<>>} \cup {<<x>> : x \in Prices}, q \in Quantities }
    \cup { Order_new(next_id, "Y", s, "Limit", <<1>>, 1) : s \in {"Buy", "Sell"} }

Next ==
    \/ \E i \in Instruments : add_market(i)
    \/ \E o \in NewOrders : process_order(o)
    \/ match_order_next
    \/ process_level_iteration
    \/ process_level_exit
    \/ add_order_rest
    \/ \E id \in Ids, i \in Instruments : cancel_order_by_id(id, i)
    \/ Return

Spec == Init /\ [][Next]_vars

\* a call, once entered, runs on the calling thread until it returns:
\* process_order has no await and takes no lock
FairSpec ==
    /\ Spec
    /\ WF_vars(match_order_next)
    /\ WF_vars(process_level_iteration)
    /\ WF_vars(process_level_exit)
    /\ WF_vars(add_order_rest)

\* the same engine under a driver whose NEW rows may carry the id of an
\* order that still rests (simulation.rs takes the id of a new order from
\* the row)
ReusedOrders ==
    { [o EXCEPT !.order_id = id] : o \in NewOrders, id \in resting_ids(books) }

ReuseNext ==
    \/ Next
    \/ \E o \in ReusedOrders : process_order(o)

ReuseSpec == Init /\ [][ReuseNext]_vars

\* ------------------------------------------------------ Order::fill alone
\* an order as Order::new_limit / Order::new_market make it, of any
\* quantity up to MaxFill, and then any sequence of fills of it
FillOrders ==
    { Order_new(id, i, sd, "Limit", <<x>>, q) :
        id \in Ids, i \in Instruments, sd \in {"Buy", "Sell"}, x \in Prices, q \in 0..MaxFill }
    \cup { Order_new(id, i, sd, "Market", <<>>, q) :
        id \in Ids, i \in Instruments, sd \in {"Buy", "Sell"}, q \in 0..MaxFill }

FillInit ==
    /\ create_logger("Baseline")
    /\ incoming \in FillOrders
    /\ books = EmptyMap
    /\ next_id = 1
    /\ pc = "idle"
    /\ prices_to_process = <<>>
    /\ iter = 0
    /\ price = 0
    /\ trades = <<>>
    /\ result = NoResult
    /\ pre = EmptyMap
    /\ filled_orders = <<>>
    /\ traded = EmptyMap
    /\ log = <<>>
    /\ last_submit = NoSubmit

\* order.fill(qty)
Order_fill(qty) ==
    /\ incoming' = fill(incoming, qty)
    /\ UNCHANGED <<books, next_id, pc, prices_to_process, iter, price, trades, result, pre,
                   filled_orders, traded, log, last_submit>>
    /\ UNCHANGED logger_vars

FillNext == \E qty \in 0..MaxFill : Order_fill(qty)

FillSpec == FillInit /\ [][FillNext]_vars

\* ------------------------------------------------- the logger in operation
\* faulty variant: a log_* call of an async logger also writes its line to
\* the file from the calling thread
logger_call_writes_through(call) ==
    /\ main_pc = "run"
    /\ Len(calls) < MaxCalls
    /\ calls' = Append(calls, call)
    /\ IF mode \in AsyncModes
       THEN /\ channel' = IF writer_pc # "exited"
                          THEN Append(channel, message(mode, call)) ELSE channel
            /\ file' = Append(file, format(call))
            /\ UNCHANGED <<buffer, io_failed, stdout, main_pc>>
       ELSE UNCHANGED <<channel, buffer, file, io_failed, stdout, main_pc>>
    /\ UNCHANGED <<mode, operation, sender, file_state, writer_pc, dropped>>
    /\ UNCHANGED engine_vars

\* one log_* call on the logger: the synchronous loggers write the line
\* (nothing if the file could not be created), the async loggers send a
\* message (dropped if the writer thread is gone)
logger_call(call) ==
    /\ main_pc = "run"
    /\ Len(calls) < MaxCalls
    /\ calls' = Append(calls, call)
    /\ IF mode = "Naive"
       THEN \E stdout_ok \in BOOLEAN :
              LET r == println(stdout, format(call), stdout_ok)
              IN /\ stdout' = r.stdout
                 /\ main_pc' = IF r.ok THEN "run" ELSE "panicked"
                 /\ UNCHANGED <<channel, buffer, file, io_failed>>
       ELSE IF mode \in AsyncModes
       THEN /\ channel' = IF writer_pc # "exited"
                          THEN Append(channel, message(mode, call)) ELSE channel
            /\ UNCHANGED <<buffer, file, io_failed, stdout, main_pc>>
       ELSE IF file_state # "open"
       THEN UNCHANGED <<channel, buffer, file, io_failed, stdout, main_pc>>
       ELSE \E disk_ok \in BOOLEAN :
              LET r == write_line(mode, buffer, file, format(call), disk_ok)
              IN /\ buffer' = r.buffer
                 /\ file' = r.file
                 /\ io_failed' = (io_failed \/ ~r.ok)
                 /\ UNCHANGED <<channel, stdout, main_pc>>
    /\ UNCHANGED <<mode, operation, sender, file_state, writer_pc, dropped>>
    /\ UNCHANGED engine_vars

log_order_submission(id) ==
    logger_call(log_call("log_order_submission", [id |-> id, success |-> TRUE]))

log_trade(id) ==
    logger_call(log_call("log_trade", [id |-> id, success |-> TRUE]))

log_order_cancel(id, success) ==
    logger_call(log_call("log_order_cancel", [id |-> id, success |-> success]))

log_order_filled(id) ==
    logger_call(log_call("log_order_filled", [id |-> id, success |-> TRUE]))

\* the driver goes on to its next operation
next_operation ==
    /\ main_pc = "run"
    /\ operation + 1 \in Operations
    /\ operation' = operation + 1
    /\ UNCHANGED <<mode, stdout, calls, channel, sender, buffer, file, file_state, writer_pc,
                   main_pc, io_failed, dropped>>
    /\ UNCHANGED engine_vars

\* finalize of PrintlnLogger (empty), NaiveFileWriteLogger and
\* BufferedFileWriteLogger
finalize_flush ==
    /\ main_pc = "run"
    /\ mode \notin AsyncModes
    /\ main_pc' = "finalized"
    /\ IF file_state # "open"
       THEN UNCHANGED <<buffer, file, io_failed>>
       ELSE \E disk_ok \in BOOLEAN :
              LET r == flush(buffer, file, disk_ok)
              IN /\ buffer' = r.buffer
                 /\ file' = r.file
                 /\ io_failed' = (io_failed \/ ~r.ok)
    /\ UNCHANGED <<mode, stdout, calls, operation, channel, sender, file_state, writer_pc, dropped>>
    /\ UNCHANGED engine_vars

\* finalize of the async loggers: drop(self.sender)
finalize_drop_sender ==
    /\ main_pc = "run"
    /\ mode \in AsyncModes
    /\ sender' = FALSE
    /\ main_pc' = "join"
    /\ UNCHANGED <<mode, stdout, calls, operation, channel, buffer, file, file_state, writer_pc, io_failed, dropped>>
    /\ UNCHANGED engine_vars

\* faulty variant: finalize returns without waiting for the writer thread
finalize_without_join ==
    /\ main_pc = "join"
    /\ main_pc' = "finalized"
    /\ UNCHANGED <<mode, stdout, calls, operation, channel, sender, buffer, file, file_state,
                   writer_pc, io_failed, dropped>>
    /\ UNCHANGED engine_vars

\* finalize of the async loggers: handle.join() returns once the thread has
\* exited
finalize_join ==
    /\ main_pc = "join"
    /\ writer_pc = "exited"
    /\ main_pc' = "finalized"
    /\ UNCHANGED <<mode, stdout, calls, operation, channel, sender, buffer, file, file_state, writer_pc,
                   io_failed, dropped>>
    /\ UNCHANGED engine_vars

\* writer thread: File::create; on failure the thread ends and the
\* receiver is dropped with what it holds
writer_create_file ==
    /\ writer_pc = "start"
    /\ \E created \in BOOLEAN :
          /\ file_state' = IF created THEN "open" ELSE "failed"
          /\ writer_pc' = IF created THEN "iter" ELSE "exited"
          /\ channel' = IF created THEN channel ELSE <<>>
          /\ io_failed' = (io_failed \/ ~created)
          /\ dropped' = (dropped \/ (~created /\ channel # <<>>))
    /\ UNCHANGED <<mode, stdout, calls, operation, sender, buffer, file, main_pc>>
    /\ UNCHANGED engine_vars

\* writer thread: one turn of `for msg in receiver.iter()`; only the
\* AsyncStringLogger leaves the loop when the write fails
writer_recv ==
    /\ writer_pc = "iter"
    /\ channel # <<>>
    /\ channel' = recv(channel).rest
    /\ \E disk_ok \in BOOLEAN :
          LET r == buf_write(buffer, file, line_of_message(mode, recv(channel).msg), disk_ok)
          IN /\ buffer' = r.buffer
             /\ file' = r.file
             /\ io_failed' = (io_failed \/ ~r.ok)
             /\ writer_pc' = IF mode = "AsyncString" /\ ~r.ok THEN "flush" ELSE "iter"
    /\ UNCHANGED <<mode, stdout, calls, operation, sender, file_state, main_pc, dropped>>
    /\ UNCHANGED engine_vars

\* faulty variant: receiver.iter() keeps waiting on the empty channel after
\* the sender is dropped
writer_never_ends ==
    /\ writer_pc = "iter"
    /\ channel = <<>>
    /\ ~sender
    /\ UNCHANGED vars

\* writer thread: receiver.iter() ends once the channel is empty and the
\* sender is dropped
writer_end_of_stream ==
    /\ writer_pc = "iter"
    /\ channel = <<>>
    /\ ~sender
    /\ writer_pc' = "flush"
    /\ UNCHANGED <<mode, stdout, calls, operation, channel, sender, buffer, file, file_state, main_pc,
                   io_failed, dropped>>
    /\ UNCHANGED engine_vars

\* writer thread: writer.flush() and the end of the thread, which drops the
\* receiver with what it holds
writer_flush ==
    /\ writer_pc = "flush"
    /\ writer_pc' = "exited"
    /\ channel' = <<>>
    /\ dropped' = (dropped \/ channel # <<>>)
    /\ \E disk_ok \in BOOLEAN :
          LET r == flush(buffer, file, disk_ok)
          IN /\ buffer' = r.buffer
             /\ file' = r.file
             /\ io_failed' = (io_failed \/ ~r.ok)
    /\ UNCHANGED <<mode, stdout, calls, operation, sender, file_state, main_pc>>
    /\ UNCHANGED engine_vars

\* a logger of one of the modes, the calls of a driver on it and its
\* writer thread, in every interleaving
LoggerInit == MatchingEngine_new /\ \E m \in LoggerModes : create_logger(m)

LoggerNext ==
    \/ log_order_submission(operation)
    \/ log_trade(operation)
    \/ \E success \in BOOLEAN : log_order_cancel(operation, success)
    \/ log_order_filled(operation)
    \/ next_operation
    \/ finalize_flush
    \/ finalize_drop_sender
    \/ finalize_join
    \/ writer_create_file
    \/ writer_recv
    \/ writer_end_of_stream
    \/ writer_flush

LoggerSpec == LoggerInit /\ [][LoggerNext]_vars

\* the same with the scheduling of the threads: the spawned writer thread
\* is run when it has a step to take, and a join on an exited thread
\* returns
LoggerFairSpec ==
    /\ LoggerInit
    /\ [][LoggerNext]_vars
    /\ WF_vars(writer_create_file)
    /\ WF_vars(writer_recv)
    /\ WF_vars(writer_end_of_stream)
    /\ WF_vars(writer_flush)
    /\ WF_vars(finalize_join)

\* ================================================================ claims
\* Vocabulary of the claims.  While a call is in progress and until it has
\* returned, `trades` holds its trades, `incoming` its order, `pre` the
\* books at its entry.

\* the id of the resting order a trade was executed against
maker_id(t) == IF t.taker_side = "Buy" THEN t.sell_order_id ELSE t.buy_order_id

\* price q is strictly better than p for a taker of the given side
better_price(q, p, taker_side) == IF taker_side = "Buy" THEN q < p ELSE q > p

\* a LIMIT order of the given side and limit crosses price p
crosses(side, limit, p) == IF side = "Buy" THEN p <= limit ELSE p >= limit

\* the ids held in the price queues of a book
RECURSIVE SeqToSet(_)
SeqToSet(q) == IF q = <<>> THEN {} ELSE {Head(q)} \cup SeqToSet(Tail(q))

queued_ids(book) ==
    UNION ({SeqToSet(book.bids[p]) : p \in DOMAIN book.bids}
           \cup {SeqToSet(book.asks[p]) : p \in DOMAIN book.asks})

\* the volume the snapshot shows at one price of one side (0: not listed)
shown_volume(book, side, p) ==
    LET lv == SelectSeq(display_side(book, side), LAMBDA l : l.price = p)
    IN IF lv = <<>> THEN 0 ELSE lv[1].volume

returned_ok(op) == pc = "returned" /\ result.op = op /\ result.status = "Ok"

\* C1: strict FIFO within a price level: no trade is executed against an
\* order B while an order A that came to rest earlier at the same side and
\* price still rests with remaining quantity > 0.
C1_FifoWithinLevel ==
    \A k \in 1..Len(trades) :
        LET t == trades[k]
            b == books[t.instrument]
        IN \A a \in DOMAIN b.orders :
              ~ /\ a < maker_id(t)
                /\ b.orders[a].side = opposite(t.taker_side)
                /\ b.orders[a].price = <<t.price>>
                /\ b.orders[a].remaining_quantity > 0

\* two orders queued at one level at the entry of the call, the first one
\* traded and gone, the second one traded next
C1_Witness ==
    /\ Len(trades) >= 2
    /\ LET t == trades[1]
           m == side_map(pre[t.instrument], opposite(t.taker_side))
       IN /\ t.price \in DOMAIN m
          /\ Len(m[t.price]) >= 2
          /\ maker_id(trades[1]) = m[t.price][1]
          /\ maker_id(trades[2]) = m[t.price][2]

\* C2: best price first: no trade at price p while the opposite side holds
\* resting volume at a strictly better price; so the trades of one call
\* are in non-decreasing price order for a BUY, non-increasing for a SELL.
C2_BestPriceFirst ==
    /\ \A k \in 1..Len(trades) :
          LET t == trades[k]
              b == books[t.instrument]
              opp == side_map(b, opposite(t.taker_side))
          IN \A q \in DOMAIN opp :
                better_price(q, t.price, t.taker_side) => level_volume(b, opp[q]) = 0
    /\ \A k \in 1..(Len(trades) - 1) :
          IF incoming.side = "Buy" THEN trades[k].price <= trades[k + 1].price
          ELSE trades[k].price >= trades[k + 1].price

\* one call has walked two price levels
C2_Witness ==
    /\ Len(trades) >= 2
    /\ trades[1].price # trades[2].price

\* C3: every trade's price is the limit price of the resting order it was
\* executed against, not the incoming order's limit.
C3_TradeAtMakerPrice ==
    \A k \in 1..Len(trades) :
        LET t == trades[k]
        IN /\ maker_id(t) \in DOMAIN pre[t.instrument].orders
           /\ pre[t.instrument].orders[maker_id(t)].price = <<t.price>>

\* a LIMIT taker has traded at a price other than its own limit
C3_Witness ==
    /\ incoming.order_type = "Limit"
    /\ \E k \in 1..Len(trades) : incoming.price # <<trades[k].price>>

\* C4: limit-price protection: the trades of a BUY LIMIT with limit L have
\* price <= L, those of a SELL LIMIT price >= L; a MARKET order is eligible
\* at every opposite price level present in the book.
C4_LimitPriceProtection ==
    /\ (incoming.order_type = "Limit" /\ incoming.price # <<>>) =>
          \A k \in 1..Len(trades) :
              crosses(incoming.side, incoming.price[1], trades[k].price)
    /\ (pc = "match" /\ iter = 0 /\ incoming.order_type = "Market") =>
          SeqToSet(prices_to_process) =
              DOMAIN side_map(books[incoming.instrument], opposite(incoming.side))

\* a LIMIT order has traded, is not filled, and has returned while the
\* opposite side still holds volume beyond its limit
C4_Witness ==
    /\ returned_ok("process_order")
    /\ incoming.order_type = "Limit"
    /\ trades # <<>>
    /\ incoming.remaining_quantity > 0
    /\ side_map(books[incoming.instrument], opposite(incoming.side)) # EmptyMap

\* the record of a live order: the incoming one, one resting in a book, or
\* a resting one consumed by the call in progress
order_record(id) ==
    IF id = incoming.order_id THEN incoming
    ELSE IF id \in resting_ids(books)
         THEN LET i == CHOOSE i \in DOMAIN books : id \in DOMAIN books[i].orders
              IN books[i].orders[id]
         ELSE LET k == CHOOSE k \in 1..Len(filled_orders) : filled_orders[k].order_id = id
              IN filled_orders[k]

\* C5: quantity conservation per order: the quantities of the trades that
\* name an order never sum to more than its original quantity, and when
\* they sum to the original quantity the order's status is FILLED.
\* (Stated of the orders of a completed call and of the resting ones.)
C5_QuantityConservation ==
    pc \in {"idle", "returned"} =>
        \A id \in DOMAIN traded :
            /\ traded[id] <= order_record(id).quantity
            /\ traded[id] = order_record(id).quantity =>
                  order_record(id).status = "Filled"

\* C6: trade attribution: taker_side is the incoming order's side; for a
\* BUY taker buy_order_id is the incoming id and sell_order_id the id of
\* the resting order, for a SELL taker the roles are reversed.
C6_TradeAttribution ==
    \A k \in 1..Len(trades) :
        LET t == trades[k]
            taker == IF t.taker_side = "Buy" THEN t.buy_order_id ELSE t.sell_order_id
            opp == side_map(pre[t.instrument], opposite(incoming.side))
        IN /\ t.taker_side = incoming.side
           /\ taker = incoming.order_id
           /\ t.price \in DOMAIN opp
           /\ maker_id(t) \in SeqToSet(opp[t.price])

\* a SELL taker has traded against a resting bid
C6_Witness ==
    /\ trades # <<>>
    /\ incoming.side = "Sell"
    /\ trades[1].buy_order_id \in DOMAIN pre[incoming.instrument].orders

\* C7: a MARKET order never rests: when process_order has returned for a
\* MARKET order its id is in neither the id index nor any price queue, and
\* the snapshot of its own side is as before the call.
C7_MarketNeverRests ==
    (returned_ok("process_order") /\ incoming.order_type = "Market") =>
        /\ \A i \in DOMAIN books :
              /\ incoming.order_id \notin DOMAIN books[i].orders
              /\ incoming.order_id \notin queued_ids(books[i])
        /\ display_side(books[incoming.instrument], incoming.side) =
              display_side(pre[incoming.instrument], incoming.side)

\* a MARKET order has returned partly filled, its own side not empty
C7_Witness ==
    /\ returned_ok("process_order")
    /\ incoming.order_type = "Market"
    /\ trades # <<>>
    /\ incoming.remaining_quantity > 0
    /\ display_side(books[incoming.instrument], incoming.side) # <<>>

\* what the call has traded for the incoming order
traded_in_call == SumSeq([k \in 1..Len(trades) |-> trades[k].quantity])

\* no opposite level of the book at the entry of the call crosses the order
crosses_nothing ==
    \A p \in DOMAIN side_map(pre[incoming.instrument], opposite(incoming.side)) :
        ~crosses(incoming.side, incoming.price[1], p)

\* the remainder of the incoming LIMIT order is at the tail of its queue
\* and in the id index with its updated state
rests_at_tail ==
    LET own_pre == side_map(pre[incoming.instrument], incoming.side)
        own == side_map(books[incoming.instrument], incoming.side)
        p == incoming.price[1]
        queue_pre == IF p \in DOMAIN own_pre THEN own_pre[p] ELSE <<>>
    IN /\ p \in DOMAIN own
       /\ own[p] = Append(queue_pre, incoming.order_id)
       /\ incoming.order_id \in DOMAIN books[incoming.instrument].orders
       /\ books[incoming.instrument].orders[incoming.order_id] = incoming
       /\ incoming.remaining_quantity = incoming.quantity - traded_in_call

\* C8 as stated: the unfilled remainder of a LIMIT order rests at the tail
\* of the queue at (side, limit price) and in the id index with remaining =
\* original minus the quantity traded in this call; a LIMIT order that
\* crosses nothing produces no trades and rests with its full quantity.
C8_LimitRemainderRests_AsStated ==
    (returned_ok("process_order") /\ incoming.order_type = "Limit") =>
        /\ incoming.remaining_quantity > 0 => rests_at_tail
        /\ crosses_nothing =>
              /\ trades = <<>>
              /\ rests_at_tail
              /\ incoming.remaining_quantity = incoming.quantity

\* C8 amended: as stated, the last part for orders of quantity > 0 (an
\* order of quantity 0 has nothing left and is not queued).
C8_LimitRemainderRests ==
    (returned_ok("process_order") /\ incoming.order_type = "Limit") =>
        /\ incoming.remaining_quantity > 0 => rests_at_tail
        /\ incoming.remaining_quantity = 0 =>
              /\ incoming.order_id \notin DOMAIN books[incoming.instrument].orders
              /\ incoming.order_id \notin queued_ids(books[incoming.instrument])
        /\ (crosses_nothing /\ incoming.quantity > 0) =>
              /\ trades = <<>>
              /\ rests_at_tail
              /\ incoming.remaining_quantity = incoming.quantity

\* a LIMIT order has traded part of its quantity and its remainder rests
C8_Witness ==
    /\ returned_ok("process_order")
    /\ incoming.order_type = "Limit"
    /\ trades # <<>>
    /\ incoming.remaining_quantity > 0
    /\ incoming.order_id \in DOMAIN books[incoming.instrument].orders

\* C9: cancelling a resting order returns it with status CANCELLED and its
\* current remaining quantity; afterwards the id is in neither the id index
\* nor any price queue, and the level's snapshot volume has dropped by
\* exactly that remaining quantity.
C9_CancelResting ==
    (pc = "returned" /\ result.op = "cancel_order_by_id"
        /\ result.instrument \in DOMAIN pre
        /\ result.order_id \in DOMAIN pre[result.instrument].orders) =>
        LET old == pre[result.instrument].orders[result.order_id]
            b == books[result.instrument]
        IN /\ result.status = "Ok"
           /\ result.order = <<[old EXCEPT !.status = "Canceled"]>>
           /\ \A i \in DOMAIN books :
                 /\ result.order_id \notin DOMAIN books[i].orders
                 /\ result.order_id \notin queued_ids(books[i])
           /\ shown_volume(b, old.side, old.price[1]) =
                 shown_volume(pre[result.instrument], old.side, old.price[1])
                    - old.remaining_quantity

\* a partially filled order has been cancelled from a level that holds
\* another order
C9_Witness ==
    /\ returned_ok("cancel_order_by_id")
    /\ result.order[1].status = "Canceled"
    /\ result.order[1].remaining_quantity < result.order[1].quantity
    /\ shown_volume(books[result.instrument], result.order[1].side,
                    result.order[1].price[1]) > 0

\* C10: cancel_order_by_id on a registered symbol with an id that does not
\* rest in that book returns OrderNotFound(id) and leaves every book
\* unchanged.
C10_CancelUnknown ==
    (pc = "returned" /\ result.op = "cancel_order_by_id"
        /\ result.instrument \in DOMAIN pre
        /\ result.order_id \notin DOMAIN pre[result.instrument].orders) =>
        /\ result.status = "OrderNotFound"
        /\ result.order = <<>>
        /\ books = pre

\* the id cancelled on one symbol rests in the book of another symbol
C10_Witness ==
    /\ pc = "returned"
    /\ result.op = "cancel_order_by_id"
    /\ result.status = "OrderNotFound"
    /\ \E i \in DOMAIN books : result.order_id \in DOMAIN books[i].orders

\* ---------------------------------------------------------------- C11
\* the order passes the type/price validation of process_order
well_formed(o) ==
    \/ o.order_type = "Limit" /\ o.price # <<>>
    \/ o.order_type = "Market" /\ o.price = <<>>

\* the call that has just returned named a symbol with no book at its entry
\* (books are never removed, so: a symbol that was never registered)
unknown_symbol_call ==
    /\ pc = "returned"
    /\ result.op \in {"process_order", "cancel_order_by_id"}
    /\ result.instrument \notin DOMAIN pre

\* C11 as stated: every process_order and cancel_order_by_id naming a
\* symbol that was never registered returns MarketNotFound, creates no
\* book, changes no book and makes no logger call.
C11_UnknownMarket_AsStated ==
    unknown_symbol_call =>
        /\ result.status = "MarketNotFound"
        /\ books = pre
        /\ log = <<>>

\* C11, amended: the same for cancel_order_by_id and for process_order of
\* an order that passes the type/price validation; an order that fails it
\* is rejected before the symbol is looked up, with no effect either.
C11_UnknownMarket ==
    unknown_symbol_call =>
        /\ result.status =
              (IF result.op = "process_order" /\ ~well_formed(incoming)
               THEN "InvalidOrderPrice" ELSE "MarketNotFound")
        /\ books = pre
        /\ log = <<>>

\* a well-formed order for an unregistered symbol was rejected while another
\* book held resting orders
C11_Witness ==
    /\ unknown_symbol_call
    /\ result.op = "process_order"
    /\ result.status = "MarketNotFound"
    /\ \E y \in DOMAIN pre : pre[y].orders # EmptyMap

\* ---------------------------------------------------------------- C12
\* process_order has just returned from an order that is a MARKET order
\* with a price or a LIMIT order without one
malformed_order_call ==
    /\ pc = "returned"
    /\ result.op = "process_order"
    /\ \/ incoming.order_type = "Market" /\ incoming.price # <<>>
       \/ incoming.order_type = "Limit" /\ incoming.price = <<>>

\* C12: process_order rejects a MARKET order that carries a price and a
\* LIMIT order that carries none with InvalidOrderPrice; the rejected call
\* produces no trades, leaves every book unchanged and makes no logger call.
C12_InvalidOrderPrice ==
    malformed_order_call =>
        /\ result.status = "InvalidOrderPrice"
        /\ trades = <<>>
        /\ books = pre
        /\ log = <<>>

\* a MARKET order with a price was rejected although the opposite side of
\* its book held resting orders it would have matched
C12_Witness ==
    /\ malformed_order_call
    /\ incoming.order_type = "Market"
    /\ result.status = "InvalidOrderPrice"
    /\ incoming.quantity > 0
    /\ incoming.instrument \in DOMAIN pre
    /\ side_map(pre[incoming.instrument], opposite(incoming.side)) # EmptyMap

\* ---------------------------------------------------------------- C13
\* the call that has just returned cancelled, in its own book, the order of
\* the call before it, which was a LIMIT order that no opposite level of
\* that book crossed
round_trip ==
    /\ pc = "returned"
    /\ result.op = "cancel_order_by_id"
    /\ last_submit # NoSubmit
    /\ result.order_id = last_submit.order.order_id
    /\ result.instrument = last_submit.order.instrument
    /\ last_submit.order.order_type = "Limit"
    /\ \A p \in DOMAIN side_map(last_submit.book, opposite(last_submit.order.side)) :
          ~crosses(last_submit.order.side, last_submit.order.price[1], p)

\* C13: round trip: submitting a LIMIT order that crosses nothing and then
\* cancelling it by id leaves the snapshot of both sides of its book equal
\* to the snapshot before the submit.
C13_RoundTrip ==
    round_trip =>
        display(books[result.instrument]) = display(last_submit.book)

\* the round trip of an order that rested next to other resting orders, at
\* a level that already held one
C13_Witness ==
    /\ round_trip
    /\ result.status = "Ok"
    /\ shown_volume(books[result.instrument], result.order[1].side,
                    result.order[1].price[1]) > 0
    /\ side_map(books[result.instrument], opposite(result.order[1].side)) # EmptyMap

\* ---------------------------------------------------------------- C14
\* the remaining quantity of the orders of one queue of a book
RECURSIVE queued_remaining(_, _)
queued_remaining(book, queue) ==
    IF queue = <<>> THEN 0
    ELSE book.orders[Head(queue)].remaining_quantity + queued_remaining(book, Tail(queue))

\* the levels listed for one side are the levels of that side that hold
\* volume, each with the remaining quantity queued there
side_listing_exact(book, side, listing) ==
    LET m == side_map(book, side)
    IN /\ \A i \in 1..Len(listing) :
             /\ listing[i].price \in DOMAIN m
             /\ listing[i].volume = queued_remaining(book, m[listing[i].price])
             /\ listing[i].volume # 0
       /\ \A q \in DOMAIN m :
             queued_remaining(book, m[q]) # 0 =>
                 \E i \in 1..Len(listing) : listing[i].price = q

\* C14: between calls, the snapshot of every book lists for every price
\* level the sum of remaining_quantity of the orders queued there, bids in
\* strictly descending and asks in strictly ascending price order; no
\* zero-volume level is listed and no resting volume is missing.
C14_Display ==
    pc \in {"idle", "returned"} =>
        \A s \in DOMAIN books :
            LET d == display(books[s])
            IN /\ side_listing_exact(books[s], "Buy", d.bids)
               /\ side_listing_exact(books[s], "Sell", d.asks)
               /\ \A i, j \in 1..Len(d.bids) : i < j => d.bids[i].price > d.bids[j].price
               /\ \A i, j \in 1..Len(d.asks) : i < j => d.asks[i].price < d.asks[j].price

\* a snapshot with two bid levels, one of them holding a partially filled
\* order
C14_Witness ==
    /\ pc = "idle"
    /\ \E s \in DOMAIN books :
          /\ Len(display(books[s]).bids) = 2
          /\ \E id \in DOMAIN books[s].orders :
                /\ books[s].orders[id].side = "Buy"
                /\ books[s].orders[id].remaining_quantity < books[s].orders[id].quantity

\* ---------------------------------------------------------------- C15
\* the resting orders the call consumed in full: in the id index of the
\* order's book at the entry of the call and no longer there
consumed_ids ==
    DOMAIN pre[incoming.instrument].orders \ DOMAIN books[incoming.instrument].orders

\* the logger calls of the call are: one log_trade per trade, in trade
\* order; then one log_order_filled per fully consumed resting order; then
\* a log_order_filled of the incoming order if `last` holds, and nothing
\* more
call_order(last) ==
    LET n == Len(trades)
        k == Cardinality(consumed_ids)
    IN /\ Len(log) = n + k + (IF last THEN 1 ELSE 0)
       /\ \A i \in 1..n : log[i] = [method |-> "log_trade", arg |-> trades[i]]
       /\ \A i \in (n + 1)..(n + k) :
             /\ log[i].method = "log_order_filled"
             /\ log[i].arg.order_id \in consumed_ids
             /\ log[i].arg.status = "Filled"
       /\ \A i, j \in (n + 1)..(n + k) :
             i # j => log[i].arg.order_id # log[j].arg.order_id
       /\ last => log[n + k + 1] = [method |-> "log_order_filled", arg |-> incoming]

\* C15: inside one successful process_order the logger is called in this
\* order: all log_trade calls, in trade order; then one log_order_filled
\* per fully consumed resting order; then at most one log_order_filled for
\* the incoming order, made iff the incoming order is FILLED or is a
\* MARKET order.
C15_LoggerCallOrder ==
    returned_ok("process_order") =>
        call_order(incoming.status = "Filled" \/ incoming.order_type = "Market")

\* the same with "has no remaining quantity" in the place of FILLED
C15_LoggerCallOrder_Remaining ==
    returned_ok("process_order") =>
        call_order(incoming.remaining_quantity = 0 \/ incoming.order_type = "Market")

\* a call with two trades that consumed one resting order and filled the
\* incoming LIMIT order
C15_Witness ==
    /\ returned_ok("process_order")
    /\ Len(trades) = 2
    /\ Cardinality(consumed_ids) = 1
    /\ incoming.order_type = "Limit"
    /\ Len(log) = 4

\* ---------------------------------------------------------------- C16
\* the tag a log_* call is logged under
tag_of(method) ==
    CASE method = "log_order_submission" -> "ORDER RECEIVED"
      [] method = "log_trade" -> "TRADE EXECUTED"
      [] method = "log_order_cancel" -> "ORDER CANCEL"
      [] method = "log_order_filled" -> "ORDER FILLED"

\* the line is the line of the call: its tag and the id it was called with
is_line_of(line, call) ==
    /\ line.tag = tag_of(call.method)
    /\ line.id = call.arg.id

\* the lines are the lines of the calls, one for one and in order
one_line_per_call(lines, cs) ==
    /\ Len(lines) = Len(cs)
    /\ \A i \in 1..Len(cs) : is_line_of(lines[i], cs[i])

RECURSIVE in_call_order(_, _)
in_call_order(lines, cs) ==
    IF lines = <<>> THEN TRUE
    ELSE IF cs = <<>> THEN FALSE
    ELSE \/ is_line_of(Head(lines), Head(cs)) /\ in_call_order(Tail(lines), Tail(cs))
         \/ in_call_order(lines, Tail(cs))

\* what the writer thread has written so far
written == file \o buffer

\* C17: the async writer preserves producer order in every interleaving of
\* the producer and the writer thread: the channel holds the messages of
\* the latest calls in call order, the writer has written the lines of the
\* calls before those in call order (all of them unless a write failed),
\* so the trade lines of one operation are contiguous and no line of a
\* later operation precedes a line of an earlier one.
C17_ProducerOrder ==
    mode \in AsyncModes =>
        LET n == Len(calls) - Len(channel)
        IN /\ n >= 0
           /\ \A i \in 1..Len(channel) : channel[i] = message(mode, calls[n + i])
           /\ in_call_order(written, SubSeq(calls, 1, n))
           /\ ~io_failed => Len(written) = n
           /\ \A i, j \in 1..Len(written) : i < j => written[i].id <= written[j].id
           /\ \A i, j, k \in 1..Len(written) :
                 (i < j /\ j < k /\ written[i].tag = "TRADE EXECUTED"
                    /\ written[k].tag = "TRADE EXECUTED" /\ written[i].id = written[k].id)
                 => written[j].id = written[i].id

\* the producer is still running with a message in the channel while the
\* writer has written a trade line of the first operation and a line of
\* the second
C17_Witness ==
    /\ mode \in AsyncModes
    /\ main_pc = "run"
    /\ channel # <<>>
    /\ \E i, j \in 1..Len(written) :
          /\ i < j
          /\ written[i].tag = "TRADE EXECUTED"
          /\ written[i].id = 1
          /\ written[j].id = 2

\* ---------------------------------------------------------------- C18
\* C18: add_market is idempotent: called for a symbol that is already
\* registered it leaves the state of the engine, the resting orders of
\* that symbol included, unchanged.
C18_AddMarketIdempotent ==
    (pc = "returned" /\ result.op = "add_market" /\ result.instrument \in DOMAIN pre)
        => books = pre

\* ---------------------------------------------------------------- C19
\* a process_order or cancel_order_by_id call is in progress or has just
\* returned
order_call ==
    \/ pc \in {"match", "level", "rest"}
    \/ pc = "returned" /\ result.op \in {"process_order", "cancel_order_by_id"}

\* the symbol that call was made for
call_instrument == IF pc = "returned" THEN result.instrument ELSE incoming.instrument

\* C19: books are isolated: a process_order or cancel_order_by_id for
\* symbol X leaves every other registered book unchanged, and every trade
\* of the call carries instrument X and names only orders of X's book: the
\* incoming order and an order that rested in X's book.
C19_BooksIsolated ==
    order_call =>
        /\ DOMAIN books = DOMAIN pre
        /\ \A y \in DOMAIN pre \ {call_instrument} : books[y] = pre[y]
        /\ \A k \in 1..Len(trades) :
              /\ trades[k].instrument = call_instrument
              /\ incoming.instrument = call_instrument
              /\ {trades[k].buy_order_id, trades[k].sell_order_id}
                    = {incoming.order_id, maker_id(trades[k])}
              /\ maker_id(trades[k]) \in DOMAIN pre[call_instrument].orders
              /\ \A y \in DOMAIN pre \ {call_instrument} :
                    maker_id(trades[k]) \notin DOMAIN pre[y].orders

\* an order for Y has traded in Y's book while X's book held a resting
\* order that would have crossed it
C19_Witness ==
    /\ returned_ok("process_order")
    /\ result.instrument = "Y"
    /\ trades # <<>>
    /\ "X" \in DOMAIN books
    /\ \E id \in DOMAIN books["X"].orders :
          /\ books["X"].orders[id].side = opposite(incoming.side)
          /\ crosses(incoming.side, incoming.price[1], books["X"].orders[id].price[1])

\* ---------------------------------------------------------------- C20
\* the step appends a trade to the trades of the call in progress
trade_executed == Len(trades') = Len(trades) + 1

\* C20: every trade of process_order has a quantity greater than 0 that
\* equals the smaller of the remaining quantities the incoming order and
\* the resting order had at the moment of execution, and no trade is
\* produced once the incoming order is filled.
C20_TradeQuantity ==
    [][trade_executed =>
          LET t == trades'[Len(trades')]
              resting == books[incoming.instrument].orders[maker_id(t)]
          IN /\ t.quantity > 0
             /\ t.quantity <= incoming.remaining_quantity
             /\ t.quantity <= resting.remaining_quantity
             /\ t.quantity \in {incoming.remaining_quantity, resting.remaining_quantity}
             /\ incoming.remaining_quantity > 0
             /\ incoming.status # "Filled"]_vars

\* a call has returned two trades: one that took all of a resting order and
\* one that took the rest of the incoming order and part of a resting order
C20_Witness ==
    /\ returned_ok("process_order")
    /\ Len(trades) = 2
    /\ is_filled(incoming)
    /\ maker_id(trades[1]) \notin DOMAIN books[incoming.instrument].orders
    /\ maker_id(trades[2]) \in DOMAIN books[incoming.instrument].orders

\* ---------------------------------------------------------------- C21
\* the places (side, price, position) at which an id is queued in a book
places(book, id) ==
    UNION { UNION { { <<s, p, i>> : i \in { j \in 1..Len(side_map(book, s)[p]) :
                                             side_map(book, s)[p][j] = id } } :
                    p \in DOMAIN side_map(book, s) } :
            s \in {"Buy", "Sell"} }

\* C21: in every reachable book state, every order in the id index with
\* remaining > 0 appears exactly once across all price queues, in the queue
\* of its own side at its own limit price.
C21_IndexedOrderQueuedOnce ==
    \A b \in DOMAIN books :
        \A id \in DOMAIN books[b].orders :
            LET o == books[b].orders[id]
            IN o.remaining_quantity > 0 =>
                 /\ Cardinality(places(books[b], id)) = 1
                 /\ o.price # <<>>
                 /\ \A pl \in places(books[b], id) :
                       pl[1] = o.side /\ pl[2] = o.price[1]

\* a book with three resting orders, two of them in one queue, seen
\* between calls
C21_Witness ==
    /\ pc = "idle"
    /\ \E b \in DOMAIN books :
          /\ Cardinality(DOMAIN books[b].orders) = 3
          /\ \E s \in {"Buy", "Sell"} :
                \E p \in DOMAIN side_map(books[b], s) : Len(side_map(books[b], s)[p]) = 2

\* ---------------------------------------------------------------- C22
\* C22: in every reachable book state, every id held in a bid or ask price
\* queue is present in the id index, and the indexed order has the side of
\* that queue and a limit price equal to the queue's price key.
C22_QueuedIdIndexed ==
    \A b \in DOMAIN books :
        \A s \in {"Buy", "Sell"} :
            \A p \in DOMAIN side_map(books[b], s) :
                \A i \in 1..Len(side_map(books[b], s)[p]) :
                    LET id == side_map(books[b], s)[p][i]
                    IN /\ id \in DOMAIN books[b].orders
                       /\ books[b].orders[id].side = s
                       /\ books[b].orders[id].price = <<p>>

\* between calls a book holds a bid and a partially filled ask
C22_Witness ==
    /\ pc = "idle"
    /\ \E b \in DOMAIN books :
          /\ books[b].bids # EmptyMap
          /\ \E p \in DOMAIN books[b].asks :
                \E i \in 1..Len(books[b].asks[p]) :
                    LET o == books[b].orders[books[b].asks[p][i]]
                    IN o.remaining_quantity < o.quantity

\* ---------------------------------------------------------------- C23
\* no price of either side of any book has an empty queue
no_empty_level ==
    \A b \in DOMAIN books :
        \A s \in {"Buy", "Sell"} :
            \A p \in DOMAIN side_map(books[b], s) : side_map(books[b], s)[p] # <<>>

\* C23: after every completed process_order and cancel_order_by_id call,
\* neither the bid map nor the ask map contains a price whose queue is
\* empty: a level is removed in the same call that consumes or cancels its
\* last order.
C23_NoEmptyLevel ==
    (pc = "idle" \/ (pc = "returned" /\ result.op \in {"process_order", "cancel_order_by_id"}))
        => no_empty_level

\* a process_order call has returned after consuming the last order of a
\* level, and that level is gone from the opposite side's map
C23_Witness ==
    /\ returned_ok("process_order")
    /\ trades # <<>>
    /\ \E p \in DOMAIN side_map(pre[incoming.instrument], opposite(incoming.side)) :
          p \notin DOMAIN side_map(books[incoming.instrument], opposite(incoming.side))

\* ---------------------------------------------------------------- C24
\* the order records the claim speaks of: held in an id index, returned by
\* a cancel_order_by_id call, passed to the logger by a process_order call
observed_records ==
    UNION { { books[b].orders[id] : id \in DOMAIN books[b].orders } : b \in DOMAIN books }
    \cup (IF returned_ok("cancel_order_by_id") THEN SeqToSet(result.order) ELSE {})
    \cup { log[k].arg : k \in { j \in 1..Len(log) : log[j].method = "log_order_filled" } }

\* C24: for every order record held in a book's id index, returned by
\* cancel_order_by_id, or passed to the logger by process_order, the status
\* is FILLED if and only if remaining_quantity = 0; this includes an
\* incoming order submitted with quantity 0 and a MARKET order that found
\* no liquidity.
C24_FilledIffZero ==
    \A o \in observed_records : (o.status = "Filled") <=> (o.remaining_quantity = 0)

\* the same for the records of orders submitted with a quantity above zero
C24_FilledIffZero_Positive ==
    \A o \in observed_records :
        o.quantity > 0 => ((o.status = "Filled") <=> (o.remaining_quantity = 0))

\* a MARKET order that found no liquidity has been passed to the logger
\* with its whole quantity remaining
C24_Witness ==
    /\ returned_ok("process_order")
    /\ incoming.order_type = "Market"
    /\ trades = <<>>
    /\ incoming.quantity > 0
    /\ \E k \in 1..Len(log) : log[k].arg = incoming

\* ---------------------------------------------------------------- C25
\* the records of the orders alive in a state: the resting orders, the
\* order of the call in progress, the orders the call has consumed
live_records ==
    UNION { { books[b].orders[id] : id \in DOMAIN books[b].orders } : b \in DOMAIN books }
    \cup (IF incoming = NoOrder THEN {} ELSE {incoming})
    \cup SeqToSet(filled_orders)

\* C25: for every order throughout its life 0 <= remaining_quantity <=
\* original quantity, the original quantity never changes, and the
\* remaining quantity never increases from one step of an operation, and
\* so from one operation, to the next.
C25_RemainingMonotone ==
    [][\A o \in live_records : \A n \in live_records' :
          /\ 0 <= o.remaining_quantity /\ o.remaining_quantity <= o.quantity
          /\ 0 <= n.remaining_quantity /\ n.remaining_quantity <= n.quantity
          /\ n.order_id = o.order_id =>
                /\ n.quantity = o.quantity
                /\ n.remaining_quantity <= o.remaining_quantity]_vars

\* a call has returned that left a resting order partially filled and
\* consumed another one
C25_Witness ==
    /\ returned_ok("process_order")
    /\ filled_orders # <<>>
    /\ \E o \in live_records :
          /\ o.order_id # incoming.order_id
          /\ 0 < o.remaining_quantity
          /\ o.remaining_quantity < o.quantity

\* ---------------------------------------------------------------- C26
\* the quantity the trades of the call in progress took from resting order id
made_in_call(id) ==
    SumSeq([k \in 1..Len(trades) |->
                IF maker_id(trades[k]) = id THEN trades[k].quantity ELSE 0])

\* the orders resting at the entry of the call that the call has filled
filled_in_call ==
    { id \in DOMAIN pre[incoming.instrument].orders :
          made_in_call(id) = pre[incoming.instrument].orders[id].remaining_quantity }

\* C26: a resting order that becomes FILLED during matching is removed from
\* its queue and from the id index in the same process_order call, so no
\* order with remaining quantity 0 is resident in a book between
\* operations.
C26_FilledOrderRemoved ==
    /\ returned_ok("process_order") =>
          \A id \in filled_in_call :
              /\ id \notin DOMAIN books[incoming.instrument].orders
              /\ id \notin queued_ids(books[incoming.instrument])
    /\ pc \in {"idle", "returned"} =>
          \A b \in DOMAIN books :
              \A id \in DOMAIN books[b].orders :
                  /\ books[b].orders[id].remaining_quantity > 0
                  /\ books[b].orders[id].status # "Filled"

\* a call has returned that filled one resting order of a level and left
\* the next order of that level at the head of the queue
C26_Witness ==
    /\ returned_ok("process_order")
    /\ Cardinality(filled_in_call) = 1
    /\ \E id \in filled_in_call :
          LET o == pre[incoming.instrument].orders[id]
              m == side_map(books[incoming.instrument], o.side)
          IN o.price[1] \in DOMAIN m

\* ---------------------------------------------------------------- C27
\* the level the cancelled order of the returned call rested at, in the
\* book at the entry of the call: its side, its price, its queue
cancelled_level ==
    LET o == pre[result.instrument].orders[result.order_id]
    IN [side |-> o.side, price |-> o.price[1],
        queue |-> side_map(pre[result.instrument], o.side)[o.price[1]]]

\* C27: cancelling one order from a price level that holds several orders
\* removes only that id: the other orders of the level keep their relative
\* FIFO order and their remaining quantities, and all other levels on both
\* sides are unchanged.
C27_CancelFrame ==
    (returned_ok("cancel_order_by_id") /\ Len(cancelled_level.queue) > 1) =>
        LET before == pre[result.instrument]
            after == books[result.instrument]
            lv == cancelled_level
        IN /\ DOMAIN after.orders = DOMAIN before.orders \ {result.order_id}
           /\ \A id \in DOMAIN after.orders : after.orders[id] = before.orders[id]
           /\ \A s \in {"Buy", "Sell"} :
                 /\ DOMAIN side_map(after, s) = DOMAIN side_map(before, s)
                 /\ \A p \in DOMAIN side_map(before, s) :
                       side_map(after, s)[p] =
                           IF s = lv.side /\ p = lv.price
                           THEN SelectSeq(lv.queue, LAMBDA x : x # result.order_id)
                           ELSE side_map(before, s)[p]

\* the second of two orders of a level has been cancelled while another
\* level of the book holds an order
C27_Witness ==
    /\ returned_ok("cancel_order_by_id")
    /\ Len(cancelled_level.queue) = 2
    /\ cancelled_level.queue[2] = result.order_id
    /\ Cardinality(DOMAIN books[result.instrument].orders) = 2
    /\ Cardinality(queued_ids(books[result.instrument])) = 2
    /\ \E s \in {"Buy", "Sell"} :
          \E p \in DOMAIN side_map(books[result.instrument], s) :
              <<s, p>> # <<cancelled_level.side, cancelled_level.price>>

C29_NoSurface_AsStated ==
    /\ [](main_pc # "panicked")
    /\ (main_pc = "join") ~> (main_pc = "finalized")

\* the same for the loggers that write a log file, the console logger
\* left out
C29_NoSurface ==
    /\ [](mode \in WritingModes => main_pc \in {"run", "join", "finalized"})
    /\ (main_pc = "join") ~> (main_pc = "finalized")

\* finalize has returned on an async logger whose log file could not be
\* created and whose calls were all made after the writer thread had
\* exited
C29_Witness ==
    /\ main_pc = "finalized"
    /\ mode \in AsyncModes
    /\ file_state = "failed"
    /\ Len(calls) = MaxCalls
    /\ ~dropped

\* ---------------------------------------------------------------- C30
\* what the closure logger and the enum logger write for a sequence of calls
closure_lines(cs) == [i \in 1..Len(cs) |-> closure_line(closure(cs[i]))]

enum_lines(cs) == [i \in 1..Len(cs) |-> enum_line(LogMessage(cs[i]))]

\* the lines are among the lines of `full`, in the same order
RECURSIVE embeds(_, _)
embeds(lines, full) ==
    IF lines = <<>> THEN TRUE
    ELSE IF full = <<>> THEN FALSE
    ELSE IF Head(lines) = Head(full) THEN embeds(Tail(lines), Tail(full))
    ELSE embeds(lines, Tail(full))

producer_step ==
    \/ calls' # calls
    \/ operation' # operation
    \/ sender' # sender
    \/ main_pc' # main_pc

\* a step that creates the log file, writes to it or flushes it
file_step ==
    \/ file_state' # file_state
    \/ buffer' # buffer
    \/ file' # file

\* a step of an async logger in which only the writer thread touches the
\* file and a log_* call does no more than enqueue its message
file_owned_step ==
    mode \in AsyncModes =>
        /\ producer_step => ~file_step
        /\ file_step => writer_pc \in {"start", "iter", "flush"}
        /\ calls' # calls =>
              /\ Len(calls') = Len(calls) + 1
              /\ channel' \in {channel,
                               Append(channel, message(mode, calls'[Len(calls')]))}

\* C31: in the async strategies the log file is touched by exactly one
\* thread: the writer thread creates, writes and flushes it, and a log_*
\* call of the producer only enqueues a message; in no interleaving do two
\* threads write to the file.
C31_FileOwnedByWriter == [][file_owned_step]_vars

\* the producer has just enqueued a message while the writer thread, which
\* created the file, holds the lines of the earlier calls in its buffer
C31_Witness ==
    /\ mode \in AsyncModes
    /\ main_pc = "run"
    /\ file_state = "open"
    /\ Len(channel) = 1
    /\ Len(buffer) = Len(calls) - 1
    /\ buffer # <<>>

\* ---------------------------------------------------------------- C32
\* n is what fill(q) makes of order o
fill_effect(o, n, q) ==
    /\ n.remaining_quantity = (IF q > o.remaining_quantity THEN 0
                               ELSE o.remaining_quantity - q)
    /\ n.status = (IF n.remaining_quantity = 0 THEN "Filled" ELSE "PartiallyFilled")
    /\ n = [o EXCEPT !.remaining_quantity = n.remaining_quantity, !.status = n.status]

\* the status has not moved back
status_kept(o, n) ==
    /\ o.status = "Filled" => n.status = "Filled"
    /\ o.status = "PartiallyFilled" => n.status \in {"PartiallyFilled", "Filled"}

\* C32: Order::fill(q) on an order with remaining r reduces remaining to
\* r - q (to 0 when q > r) and sets status FILLED exactly when the new
\* remaining is 0 and PARTIALLY_FILLED otherwise; an order's status never
\* moves back from PARTIALLY_FILLED to NEW or out of FILLED. Stated of
\* every fill of every order that a sequence of fills of a new order gives.
C32_Fill ==
    \A q \in 0..MaxFill :
        /\ fill_effect(incoming, fill(incoming, q), q)
        /\ status_kept(incoming, fill(incoming, q))

\* an order of the largest quantity is PARTIALLY_FILLED with one unit left,
\* so that a fill of two or more exceeds what remains
C32_Witness ==
    /\ incoming.status = "PartiallyFilled"
    /\ incoming.quantity = MaxFill
    /\ incoming.remaining_quantity = 1

\* ---------------------------------------------------------------- C33
\* no bid price of the book reaches an ask price of the book
uncrossed(book) ==
    \A b \in DOMAIN book.bids : \A a \in DOMAIN book.asks : b < a

\* C33: the book is never crossed between operations: after every
\* completed call, if both sides of a book are non-empty then its best
\* (highest) bid price is strictly lower than its best (lowest) ask price;
\* a LIMIT order that came to rest left no opposite level at a price that
\* crosses its limit.
C33_NeverCrossed ==
    pc \in {"idle", "returned"} =>
        /\ \A i \in DOMAIN books : uncrossed(books[i])
        /\ (returned_ok("process_order")
               /\ incoming.order_id \in DOMAIN books[incoming.instrument].orders) =>
              \A p \in DOMAIN side_map(books[incoming.instrument], opposite(incoming.side)) :
                  ~crosses(incoming.side, incoming.price[1], p)

\* a LIMIT order of positive quantity has traded at one level and come to
\* rest with its remainder while the opposite side still holds a level
C33_Witness ==
    /\ returned_ok("process_order")
    /\ incoming.quantity > 0
    /\ trades # <<>>
    /\ incoming.order_id \in DOMAIN books[incoming.instrument].orders
    /\ side_map(books[incoming.instrument], opposite(incoming.side)) # EmptyMap

\* ---------------------------------------------------------------- C34
\* every id in a queue of the book is in the id index, as an order of the
\* queue's side and price
queues_resolve(book) ==
    \A sd \in {"Buy", "Sell"} :
        \A p \in DOMAIN side_map(book, sd) :
            \A id \in SeqToSet(side_map(book, sd)[p]) :
                /\ id \in DOMAIN book.orders
                /\ book.orders[id].side = sd
                /\ book.orders[id].price = <<p>>

\* C34: process_order accepts an order whose id equals the id of an order
\* still resting in the same book without breaking the book: afterwards
\* every queued id still resolves in the id index at the queue's own side
\* and price, a later cancel of that id removes every queue reference to
\* it, and no later process_order or get_order_book_display call panics on
\* a missing id.
C34_ReuseKeepsBook ==
    /\ pc # "panicked"
    /\ pc \in {"idle", "returned"} => \A i \in DOMAIN books : queues_resolve(books[i])
    /\ returned_ok("cancel_order_by_id") =>
          result.order_id \notin queued_ids(books[result.instrument])

\* the three parts of it, one by one
C34_NoPanic == pc # "panicked"

C34_QueuesResolve ==
    pc \in {"idle", "returned"} => \A i \in DOMAIN books : queues_resolve(books[i])

C34_CancelRemovesAll ==
    returned_ok("cancel_order_by_id") =>
        result.order_id \notin queued_ids(books[result.instrument])

\* a process_order call has returned Ok for an order that carried the id of
\* an order resting in the same book at the entry of the call
C34_Witness ==
    /\ returned_ok("process_order")
    /\ incoming.order_id \in DOMAIN pre[incoming.instrument].orders
    /\ incoming.order_id \in DOMAIN books[incoming.instrument].orders

\* ---------------------------------------------------------------- C35
\* the log_order_filled calls of the call that name order id
filled_reports(id) ==
    { k \in 1..Len(log) : log[k].method = "log_order_filled" /\ log[k].arg.order_id = id }

\* the orders resting at the entry of the call that the call has traded
\* against without filling them
partially_consumed ==
    { id \in DOMAIN pre[incoming.instrument].orders :
          /\ made_in_call(id) > 0
          /\ made_in_call(id) < pre[incoming.instrument].orders[id].remaining_quantity }

queue_of(book, id) == side_map(book, book.orders[id].side)[book.orders[id].price[1]]

\* at the return of a call, every resting order the call filled in part is
\* at the head of its queue with its remaining quantity reduced by what the
\* call traded against it
partial_stays_at_head ==
    returned_ok("process_order") =>
        \A id \in partially_consumed :
            LET b == books[incoming.instrument]
                before == pre[incoming.instrument].orders[id]
            IN /\ id \in DOMAIN b.orders
               /\ b.orders[id].price = before.price
               /\ b.orders[id].side = before.side
               /\ front(queue_of(b, id)) = id
               /\ b.orders[id].remaining_quantity
                      = before.remaining_quantity - made_in_call(id)
               /\ b.orders[id].remaining_quantity > 0

\* the first trade a call makes at a price is made against the order that
\* was at the head of that price's queue at the entry of the call
first_trade_on_head ==
    \A k \in 1..Len(trades) :
        (\A j \in 1..(k - 1) : trades[j].price # trades[k].price) =>
            LET m == side_map(pre[incoming.instrument], opposite(incoming.side))
            IN /\ trades[k].price \in DOMAIN m
               /\ maker_id(trades[k]) = front(m[trades[k].price])

\* a step keeps a partially filled order at the head of a queue there, with
\* no more remaining quantity than before, unless it takes the order out of
\* the book
head_kept_step ==
    \A i \in DOMAIN books : \A side \in {"Buy", "Sell"} :
        \A p \in DOMAIN side_map(books[i], side) :
            LET queue == side_map(books[i], side)[p]
                h == front(queue)
            IN (/\ queue # <<>>
                /\ h \in DOMAIN books[i].orders
                /\ books[i].orders[h].remaining_quantity < books[i].orders[h].quantity
                /\ h \in DOMAIN books'[i].orders)
               => /\ p \in DOMAIN side_map(books'[i], side)
                  /\ side_map(books'[i], side)[p] # <<>>
                  /\ front(side_map(books'[i], side)[p]) = h
                  /\ books'[i].orders[h].remaining_quantity
                         <= books[i].orders[h].remaining_quantity

taken_by(k) == SumSeq([j \in 1..k |-> trades[j].quantity])

\* trade k takes all that its maker had left at the entry of the call
fills_maker(k) ==
    LET b == pre[incoming.instrument]
    IN /\ maker_id(trades[k]) \in DOMAIN b.orders
       /\ trades[k].quantity = b.orders[maker_id(trades[k])].remaining_quantity

\* trade k takes the last of the incoming order
fills_taker(k) == taken_by(k) = incoming.quantity

\* C37: in the trade list of one call every trade fully fills at least one
\* of its two orders, and every trade except possibly the last fully fills
\* its maker, so the number of trades is at most the number of resting
\* orders removed plus one.
C37_TradesFill ==
    returned_ok("process_order") =>
        /\ \A k \in 1..Len(trades) : fills_maker(k) \/ fills_taker(k)
        /\ \A k \in 1..(Len(trades) - 1) : fills_maker(k)
        /\ Len(trades) <= Cardinality(consumed_ids) + 1

\* a call has returned with two trades: the first removed its maker, the
\* last filled the incoming order and left its maker resting
C37_Witness ==
    /\ returned_ok("process_order")
    /\ Len(trades) = 2
    /\ Cardinality(consumed_ids) = 1
    /\ fills_maker(1)
    /\ ~fills_maker(2)
    /\ fills_taker(2)

\* ---------------------------------------------------------------- C38
\* the total volume the snapshot of a book shows on one side
snapshot_volume(book, side) ==
    LET listing == display_side(book, side)
    IN SumSeq([i \in 1..Len(listing) |-> listing[i].volume])

\* C38: volume accounting of a process_order call: the total snapshot volume
\* of the side opposite to the incoming order goes down by exactly the sum
\* of the call's trade quantities; the total snapshot volume of the incoming
\* order's own side goes up by the order's remainder if it is a LIMIT order
\* and is unchanged if it is a MARKET order.
C38_VolumeAccounting ==
    returned_ok("process_order") =>
        LET before == pre[incoming.instrument]
            after == books[incoming.instrument]
            own == incoming.side
            opp == opposite(incoming.side)
        IN /\ snapshot_volume(after, opp) = snapshot_volume(before, opp) - traded_in_call
           /\ incoming.order_type = "Limit" =>
                  snapshot_volume(after, own)
                      = snapshot_volume(before, own) + incoming.remaining_quantity
           /\ incoming.order_type = "Market" =>
                  snapshot_volume(after, own) = snapshot_volume(before, own)

\* a LIMIT order has traded and its remainder is the volume of its side
C38_LimitWitness ==
    /\ returned_ok("process_order")
    /\ incoming.order_type = "Limit"
    /\ traded_in_call > 0
    /\ incoming.remaining_quantity > 0
    /\ snapshot_volume(books[incoming.instrument], incoming.side)
          = incoming.remaining_quantity

\* a MARKET order has traded against a side that keeps volume, while its
\* own side holds volume
C38_Witness ==
    /\ returned_ok("process_order")
    /\ incoming.order_type = "Market"
    /\ traded_in_call > 0
    /\ snapshot_volume(books[incoming.instrument], opposite(incoming.side)) > 0
    /\ snapshot_volume(books[incoming.instrument], incoming.side) > 0

\* ---------------------------------------------------------------- C39
\* the orders resting on the side opposite to the incoming order at the
\* entry of the call
opposite_at_entry ==
    { id \in DOMAIN pre[incoming.instrument].orders :
          pre[incoming.instrument].orders[id].side = opposite(incoming.side) }

\* a call is between its entry and its return
in_call == pc \in {"match", "level", "rest"}

\* the matching steps of a call, one per trade, number at most the orders
\* resting on the opposite side at its entry plus one
steps_bounded ==
    (in_call \/ returned_ok("process_order")) =>
        Len(trades) <= Cardinality(opposite_at_entry) + 1

\* a matching step fills the incoming order or removes the resting order at
\* the head of the level's queue
matching_step_progress ==
    trades' # trades =>
        \/ is_filled(incoming')
        \/ /\ head_of_level(books[incoming.instrument], incoming, price)
                  \notin DOMAIN books'[incoming.instrument].orders
           /\ head_of_level(books[incoming.instrument], incoming, price)
                  \notin queued_ids(books'[incoming.instrument])

\* C39: process_order always terminates: every call that has been entered
\* returns; each matching iteration either fills the incoming order or
\* removes the resting order at the head of the queue, so a call makes at
\* most (resting orders on the opposite side + 1) matching steps.
C39_Terminates ==
    /\ []steps_bounded
    /\ [][matching_step_progress]_vars
    /\ (in_call ~> returned_ok("process_order"))

\* a call has returned after one matching step for each of the two orders
\* that rested on the opposite side
C39_Witness ==
    /\ returned_ok("process_order")
    /\ Cardinality(opposite_at_entry) = 2
    /\ Len(trades) = 2

\* ---------------------------------------------------------------- C40
\* the writer thread of a logger whose file was created is out of its loop
\* only at the end of the stream, and has discarded no queued message
keeps_consuming ==
    file_state = "open" =>
        /\ writer_pc \in {"flush", "exited"} => ~sender
        /\ ~dropped

\* C40: in AsyncStringLogger a failed write does not stop the writer from
\* handling later events: after a write error the writer thread keeps
\* consuming the queue, as the closure and enum writers do.
C40_StringWriterKeepsConsuming == mode = "AsyncString" => keeps_consuming

\* the closure and enum writers keep consuming after a failed write
C40_OtherWritersKeepConsuming ==
    mode \in {"AsyncClosure", "AsyncEnum"} => keeps_consuming

\* the writer thread of an AsyncStringLogger has ended after a failed write
\* while the logger is still in use
C40_Witness ==
    /\ mode = "AsyncString"
    /\ file_state = "open"
    /\ io_failed
    /\ writer_pc = "exited"
    /\ sender
    /\ main_pc = "run"

\* a closure or enum writer is still in its loop after a failed write
C40_OtherWitness ==
    /\ mode \in {"AsyncClosure", "AsyncEnum"}
    /\ file_state = "open"
    /\ io_failed
    /\ writer_pc = "iter"
    /\ sender
====
